---- MODULE Spec2Model ----
(***************************************************************************)
(* A model of embera's Embedding (interfaces/embedding.py) and of          *)
(* DWaveNetworkXTiling / Tile (preprocess/tiling_parser.py).               *)
(*                                                                         *)
(* A Python dict is a sequence of <<key, value>> pairs with distinct keys, *)
(* in insertion order; a list or a tuple is a sequence; a Python set is a  *)
(* set.  A call that raises leaves its exception's name in err.            *)
(***************************************************************************)
EXTENDS Integers, Sequences, FiniteSets, TLC

VARIABLES emb, other, source_edgelist, target_edgelist,
          graph, qubits, tiles, call, ret, err

vars == <<emb, other, source_edgelist, target_edgelist,
          graph, qubits, tiles, call, ret, err>>

(* ------------------------------ bounds --------------------------------- *)
NumVars == 2
NumQubits == 3
MaxChainLen == 2
MaxSourceEdges == 2
MaxTargetEdges == 2
MaxRows == 2
MaxTile == 4
MaxMissing == 1
MaxDeletes == 2
MaxSupply == 2

Variables == 1..NumVars
TargetNodes == 1..NumQubits

(* ------------------------- sequences and dicts ------------------------- *)
\* Python's None: what a statement leaves as its value, and the default of
\* the shore and k arguments of get_qubits
None == -1

Range(s) == {s[i] : i \in DOMAIN s}

SeqsUpTo(S, n) == UNION {[1..k -> S] : k \in 0..n}

Injective(s) == \A i, j \in DOMAIN s : s[i] = s[j] => i = j

RemoveAt(s, i) == SubSeq(s, 1, i - 1) \o SubSeq(s, i + 1, Len(s))

Keys(d) == {d[i][1] : i \in DOMAIN d}

IndexOf(d, k) == CHOOSE i \in DOMAIN d : d[i][1] = k

Get(d, k) == d[IndexOf(d, k)][2]

\* d.get(k, default)
GetOr(d, k, default) == IF k \in Keys(d) THEN Get(d, k) ELSE default

\* d[k] = v : an existing key keeps its place, a new key goes last
Put(d, k, v) ==
    IF k \in Keys(d)
    THEN [d EXCEPT ![IndexOf(d, k)] = <<k, v>>]
    ELSE Append(d, <<k, v>>)

\* del d[k]
Del(d, k) == RemoveAt(d, IndexOf(d, k))

RECURSIVE SumSeq(_)
SumSeq(s) == IF s = <<>> THEN 0 ELSE s[1] + SumSeq(Tail(s))

\* sorted(xs) of integers, ascending (duplicates kept)
RECURSIVE Sorted(_)
Sorted(xs) ==
    IF xs = <<>> THEN <<>>
    ELSE LET i == CHOOSE i \in DOMAIN xs : \A j \in DOMAIN xs : xs[i] <= xs[j]
         IN  <<xs[i]>> \o Sorted(RemoveAt(xs, i))

(* ------------------------------ Embedding ------------------------------ *)
\* the chains an Embedding may hold: non-empty lists of distinct qubits
Chains == {c \in SeqsUpTo(TargetNodes, MaxChainLen) : c # <<>> /\ Injective(c)}

\* the dicts variable -> chain with at most n entries
Embeddings(n) ==
    {e \in SeqsUpTo(Variables \X Chains, n) : Injective([i \in DOMAIN e |-> e[i][1]])}

\* chain_histogram: the loop over map(len, self.values())
RECURSIVE HistLoop(_, _)
HistLoop(sizes, hist) ==
    IF sizes = <<>> THEN hist
    ELSE HistLoop(Tail(sizes), Put(hist, sizes[1], 1 + GetOr(hist, sizes[1], 0)))

\* a histogram that records each length once instead of counting it
chain_histogram_uncounted(self) ==
    LET sizes == [i \in DOMAIN self |-> Len(self[i][2])]
        firsts == {i \in DOMAIN sizes : \A j \in 1..(i - 1) : sizes[j] # sizes[i]}
        F[i \in 0..Len(sizes)] ==
            IF i = 0 THEN <<>>
            ELSE IF i \in firsts THEN Append(F[i - 1], <<sizes[i], 1>>) ELSE F[i - 1]
    IN  F[Len(sizes)]

chain_histogram(self) == HistLoop([i \in DOMAIN self |-> Len(self[i][2])], <<>>)

\* sorted(hist.items(), reverse=True): the keys are distinct, so the items
\* are ordered by key, largest first
RECURSIVE SortedItemsReverse(_)
SortedItemsReverse(hist) ==
    IF hist = <<>> THEN <<>>
    ELSE LET i == CHOOSE i \in DOMAIN hist :
                      \A j \in DOMAIN hist : hist[i][1] >= hist[j][1]
         IN  <<hist[i]>> \o SortedItemsReverse(RemoveAt(hist, i))

RECURSIVE Flatten(_)
Flatten(items) ==
    IF items = <<>> THEN <<>>
    ELSE <<items[1][1], items[1][2]>> \o Flatten(Tail(items))

quality_key(self) == Flatten(SortedItemsReverse(chain_histogram(self)))

\* sum([QK[i]*QK[i+1] for i in range(0,len(QK),2)]), QK indexed from 1 here
total_qubits(self) ==
    LET QK == quality_key(self)
        idx == {i \in DOMAIN QK : i % 2 = 1}
        terms == [p \in 1..Cardinality(idx) |-> QK[2 * p - 1] * QK[2 * p]]
    IN  SumSeq(terms)

\* hash(q) of a qubit label: CPython hashes a small non-negative int to itself
hash(q) == q

RECURSIVE Power(_, _)
Power(b, n) == IF n = 0 THEN 1 ELSE b * Power(b, n - 1)

\* hash(tuple(xs)): the collisions of CPython's tuple hash are set aside, so
\* it is a collision-free code of the tuple, order and length included: the
\* positional code of xs in a radix above every element (elements are >= 1)
RECURSIVE TupleHash(_, _)
TupleHash(xs, radix) ==
    IF xs = <<>> THEN 0
    ELSE TupleHash(SubSeq(xs, 1, Len(xs) - 1), radix) * radix + xs[Len(xs)]

QubitRadix == NumQubits + 1
ChainRadix == Power(QubitRadix, MaxChainLen)

\* the inner loop of __key: the hash of the sorted tuple of the chain's hashes
ChainKey(chain) ==
    TupleHash(Sorted([i \in DOMAIN chain |-> hash(chain[i])]), QubitRadix)

\* Embedding.__key: the per-chain hashes are combined in the dict's order
EmbeddingKey(self) ==
    TupleHash([i \in DOMAIN self |-> ChainKey(self[i][2])], ChainRadix)

\* __hash__: hash of the int key, itself
EmbeddingHash(self) == hash(EmbeddingKey(self))

EmbeddingEq(self, o) == EmbeddingKey(self) = EmbeddingKey(o)

EmbeddingNe(self, o) == EmbeddingKey(self) # EmbeddingKey(o)

(* ------------------- interactions and connectivity --------------------- *)
\* the result of a call: a value, or the name of the exception raised
Ok(v) == [err |-> "none", val |-> v]
Raise(e) == [err |-> e, val |-> <<>>]

\* for s,t in target_edgelist: ... target_adj[s] = [t] + target_adj.get(s,[]) ...
RECURSIVE TargetAdj(_, _)
TargetAdj(edges, adj) ==
    IF edges = <<>> THEN adj
    ELSE LET s == edges[1][1]
             t == edges[1][2]
         IN  IF s = t THEN TargetAdj(Tail(edges), adj)
             ELSE LET adj1 == Put(adj, s, <<t>> \o GetOr(adj, s, <<>>))
                      adj2 == Put(adj1, t, <<s>> \o GetOr(adj1, t, <<>>))
                  IN  TargetAdj(Tail(edges), adj2)

\* target_adj[s]
AdjLookup(adj, s) == IF s \in Keys(adj) THEN Ok(Get(adj, s)) ELSE Raise("KeyError")

\* the two inner loops for one source edge: the pairs (s,t) in the order the
\* loops visit them, or the KeyError of the first target_adj[s] that fails
EdgeInteractions(self, u, v, adj) ==
    LET cu == Get(self, u)
        cv == Get(self, v)
        visited == [p \in 1..(Len(cu) * Len(cv)) |->
                       <<cu[((p - 1) \div Len(cv)) + 1], cv[((p - 1) % Len(cv)) + 1]>>]
        Raises(p) == AdjLookup(adj, p[1]).err # "none"
        Joined(p) == p[2] \in Range(AdjLookup(adj, p[1]).val)
    IN  IF \E i \in DOMAIN visited : Raises(visited[i])
        THEN Raise("KeyError")
        ELSE Ok(SelectSeq(visited, Joined))

\* for u,v in source_edgelist: ... interactions[(u,v)] = edge_interactions
RECURSIVE InteractionsLoop(_, _, _, _)
InteractionsLoop(self, edges, adj, acc) ==
    IF edges = <<>> THEN Ok(acc)
    ELSE LET u == edges[1][1]
             v == edges[1][2]
         IN  IF u = v THEN InteractionsLoop(self, Tail(edges), adj, acc)
             ELSE LET r == EdgeInteractions(self, u, v, adj)
                  IN  IF r.err # "none" THEN r
                      ELSE InteractionsLoop(self, Tail(edges), adj,
                                            Put(acc, <<u, v>>, r.val))

interactions(self, source, target) ==
    InteractionsLoop(self, source, TargetAdj(target, <<>>), <<>>)

\* for s,t in edge_interactions: connections[s] = [(u,v)] + ...; connections[t] = [(v,u)] + ...
RECURSIVE ConnectEdge(_, _, _, _)
ConnectEdge(u, v, pairs, conn) ==
    IF pairs = <<>> THEN conn
    ELSE LET s == pairs[1][1]
             t == pairs[1][2]
             c1 == Put(conn, s, <<(<<u, v>>)>> \o GetOr(conn, s, <<>>))
             c2 == Put(c1, t, <<(<<v, u>>)>> \o GetOr(c1, t, <<>>))
         IN  ConnectEdge(u, v, Tail(pairs), c2)

RECURSIVE ConnectionsLoop(_, _)
ConnectionsLoop(items, conn) ==
    IF items = <<>> THEN conn
    ELSE ConnectionsLoop(Tail(items),
                         ConnectEdge(items[1][1][1], items[1][1][2], items[1][2], conn))

connections(self, source, target) ==
    LET r == interactions(self, source, target)
    IN  IF r.err # "none" THEN r ELSE Ok(ConnectionsLoop(r.val, <<>>))

\* a degree count that credits only the first endpoint of each source edge
RECURSIVE SourceDegreeFirstOnly(_, _)
SourceDegreeFirstOnly(edges, deg) ==
    IF edges = <<>> THEN deg
    ELSE LET u == edges[1][1]
             v == edges[1][2]
         IN  IF u = v THEN SourceDegreeFirstOnly(Tail(edges), deg)
             ELSE SourceDegreeFirstOnly(Tail(edges), Put(deg, u, 1 + GetOr(deg, u, 0)))

\* source_degree[u] = 1 + source_degree.get(u,0); the same for v
RECURSIVE SourceDegree(_, _)
SourceDegree(edges, deg) ==
    IF edges = <<>> THEN deg
    ELSE LET u == edges[1][1]
             v == edges[1][2]
         IN  IF u = v THEN SourceDegree(Tail(edges), deg)
             ELSE LET d1 == Put(deg, u, 1 + GetOr(deg, u, 0))
                      d2 == Put(d1, v, 1 + GetOr(d1, v, 0))
                  IN  SourceDegree(Tail(edges), d2)

RECURSIVE GCD(_, _)
GCD(a, b) == IF b = 0 THEN a ELSE GCD(b, a % b)

\* a / b, Python's true division of small ints: the float of a/b is the
\* same for two quotients exactly when their reduced fractions are the same
TrueDiv(a, b) == <<a \div GCD(a, b), b \div GCD(a, b)>>

\* connectivity counted as the number of recorded pairs, repeats included
ConnectivityOfEntries(edges, degree) == TrueDiv(Len(edges), degree)

\* len(set(edges)) / source_degree[u]
Connectivity(edges, degree) == TrueDiv(Cardinality(Range(edges)), degree)

\* for t,edges in connections.items(): ... hist[connectivity] = 1 + hist.get(connectivity,0)
RECURSIVE ConnectivityLoop(_, _, _)
ConnectivityLoop(items, degree, hist) ==
    IF items = <<>> THEN Ok(hist)
    ELSE LET edges == items[1][2]
             u == edges[1][1]
         IN  IF u \notin Keys(degree) THEN Raise("KeyError")
             ELSE IF Get(degree, u) = 0 THEN Raise("ZeroDivisionError")
             ELSE LET c == Connectivity(edges, Get(degree, u))
                  IN  ConnectivityLoop(Tail(items), degree,
                                       Put(hist, c, 1 + GetOr(hist, c, 0)))

connectivity_histogram(self, source, target) ==
    LET r == connections(self, source, target)
    IN  IF r.err # "none" THEN r
        ELSE ConnectivityLoop(r.val, SourceDegree(source, <<>>), <<>>)

(* ------------------------ coordinate converter ------------------------- *)
\* The converter of embera.dwave_coordinates is not part of the sources read
\* here: it is the bijection between a qubit label and its nice coordinate
\* <<layer, row, column, shore, index>>, with layer 0 on chimera.
Layers == IF graph.family = "pegasus" THEN 3 ELSE 1

linear_to_nice(r) ==
    LET t == graph.tile
        n == graph.columns
    IN  <<0, r \div (2 * t * n), (r \div (2 * t)) % n, (r \div t) % 2, r % t>>

nice_to_linear(q) ==
    ((q[2] * graph.columns + q[3]) * 2 + q[4]) * graph.tile + q[5]

coordinate_to_nice(q) == <<0>> \o q

nice_to_coordinate(q) == Tail(q)

\* every nice coordinate of the graph, in the order of the linear index
NiceCoordinates ==
    LET t == graph.tile
        n == graph.columns
        m == graph.rows
    IN  [p \in 1..(Layers * m * n * 2 * t) |->
            <<(p - 1) \div (2 * t * n * m), ((p - 1) \div (2 * t * n)) % m,
              ((p - 1) \div (2 * t)) % n, ((p - 1) \div t) % 2, (p - 1) % t>>]

(* ------------------------------- Tiling -------------------------------- *)
\* self.to_nice / self.from_nice, chosen by graph['labels']
to_nice(x) ==
    CASE graph.labels = "int" -> linear_to_nice(x)
      [] graph.labels = "coordinate" -> coordinate_to_nice(x)
      [] graph.labels = "nice" -> x

from_nice(q) ==
    CASE graph.labels = "int" -> nice_to_linear(q)
      [] graph.labels = "coordinate" -> nice_to_coordinate(q)
      [] graph.labels = "nice" -> q

\* self.shape
Shape ==
    IF graph.family = "chimera" THEN <<graph.rows, graph.columns>>
    ELSE <<3, graph.rows, graph.columns>>

get_tile(x) == LET q == to_nice(x) IN <<q[1], q[2], q[3]>>

\* (0,)*(3-len(tile)): nothing when tile has three components
Zeros(n) == [i \in 1..n |-> 0]

\* a set_tile that keeps the qubit's own layer
set_tile_keep_layer(x, tile) ==
    LET q == to_nice(x)
    IN  from_nice(<<q[1]>> \o SubSeq(tile, Len(tile) - 1, Len(tile)) \o <<q[4], q[5]>>)

set_tile(x, tile) ==
    LET q == to_nice(x)
    IN  from_nice(Zeros(3 - Len(tile)) \o tile \o <<q[4], q[5]>>)

get_shore(x) == to_nice(x)[4]

set_shore(x, u) ==
    LET q == to_nice(x) IN from_nice(<<q[1], q[2], q[3], u, q[5]>>)

get_k(x) == to_nice(x)[5]

set_k(x, k) ==
    LET q == to_nice(x) IN from_nice(<<q[1], q[2], q[3], q[4], k>>)

\* a get_qubits that stops one index short: range(self.graph['tile'] - 1)
get_qubits_short(tile, shore, k) ==
    LET shores == IF shore = None THEN <<0, 1>> ELSE <<shore>>
        indices == IF k = None THEN [i \in 1..(graph.tile - 1) |-> i - 1] ELSE <<k>>
        nice_tile == IF Len(tile) = 2 THEN <<0>> \o tile ELSE tile
    IN  [p \in 1..(Len(shores) * Len(indices)) |->
            from_nice(nice_tile \o <<shores[((p - 1) \div Len(indices)) + 1]>>
                                \o <<indices[((p - 1) % Len(indices)) + 1]>>)]

\* get_qubits: everything the generator yields, in order
get_qubits(tile, shore, k) ==
    LET shores == IF shore = None THEN <<0, 1>> ELSE <<shore>>
        indices == IF k = None THEN [i \in 1..graph.tile |-> i - 1] ELSE <<k>>
        nice_tile == IF Len(tile) = 2 THEN <<0>> \o tile ELSE tile
    IN  [p \in 1..(Len(shores) * Len(indices)) |->
            from_nice(nice_tile \o <<shores[((p - 1) \div Len(indices)) + 1]>>
                                \o <<indices[((p - 1) % Len(indices)) + 1]>>)]

\* Tile.__init__
Tile(tile, shape, qs) ==
    LET t == IF Len(tile) = 3 THEN tile[1] ELSE 0
        i == IF Len(tile) = 3 THEN tile[2] ELSE tile[1]
        j == IF Len(tile) = 3 THEN tile[3] ELSE tile[2]
    IN  [index |-> tile,
         qubits |-> qs,
         nodes |-> {},
         neighbors |-> << <<t, i - 1, j>>, <<t, i + 1, j>>, <<t, i, j - 1>>,
                          <<t, i, j + 1>>, <<t, i - 1, j - 1>>, <<t, i - 1, j + 1>>,
                          <<t, i + 1, j + 1>>, <<t, i + 1, j - 1>> >>]

\* what the loop of DWaveNetworkXTiling.__init__ leaves in self.tiles: a key
\* is made at the first qubit of its tile, so the keys stand in the order of
\* their first qubits, and every later qubit of the tile is appended to the
\* Tile made there, so a Tile holds the qubits of its tile in list order
AddTiles(qs) ==
    LET firsts == {i \in DOMAIN qs :
                      \A j \in 1..(i - 1) : get_tile(qs[j]) # get_tile(qs[i])}
        nth(p) == CHOOSE i \in firsts : Cardinality({j \in firsts : j < i}) = p - 1
    IN  [p \in 1..Cardinality(firsts) |->
            LET tile == get_tile(qs[nth(p)])
                InTile(q) == get_tile(q) = tile
            IN  <<tile, Tile(tile, Shape, SelectSeq(qs, InTile))>>]

\* candidates that also step along the diagonal of the last two components
NeighborCandidatesDiagonal(tile) ==
    UNION {{[tile EXCEPT ![i] = @ - 1], [tile EXCEPT ![i] = @ + 1]} : i \in DOMAIN tile}
      \cup {[tile EXCEPT ![Len(tile)] = @ + 1, ![Len(tile) - 1] = @ + 1]}

\* the candidates get_tile_neighbors collects in its set
NeighborCandidates(tile) ==
    UNION {{[tile EXCEPT ![i] = @ - 1], [tile EXCEPT ![i] = @ + 1]} : i \in DOMAIN tile}

\* [tile for tile in neighbors if tile in self.tiles]
NeighborSet(tile) == {c \in NeighborCandidates(tile) : c \in Keys(tiles)}

\* the lists a set may be iterated into
Orderings(S) == {s \in [1..Cardinality(S) -> S] : Injective(s)}

\* Tile.supply
supply(tile) == Len(tile.qubits)

\* a concentration with floor division
concentration_floor(tile) ==
    IF supply(tile) # 0 THEN <<Cardinality(tile.nodes) \div supply(tile), 1>> ELSE <<0, 1>>

\* Tile.concentration: len(list(self.nodes)) / self.supply, or 0
concentration(tile) ==
    IF supply(tile) # 0 THEN TrueDiv(Cardinality(tile.nodes), supply(tile)) ELSE <<0, 1>>

(* ---------------------- Embedding under mutation ----------------------- *)
NoGraph == [family |-> "none"]

InitEmbedding ==
    /\ emb = <<>>
    /\ other = <<>>
    /\ source_edgelist = <<>>
    /\ target_edgelist = <<>>
    /\ graph = NoGraph
    /\ qubits = <<>>
    /\ tiles = <<>>
    /\ call = [op |-> "init"]
    /\ ret = None
    /\ err = "none"

\* E[v] = chain : adds the variable or replaces its chain
SetItem(v, chain) ==
    /\ emb' = Put(emb, v, chain)
    /\ call' = [op |-> "setitem"]
    /\ ret' = None
    /\ UNCHANGED <<other, source_edgelist, target_edgelist, graph, qubits, tiles, err>>

\* del E[v]
DelItem(v) ==
    /\ v \in Keys(emb)
    /\ emb' = Del(emb, v)
    /\ call' = [op |-> "delitem"]
    /\ ret' = None
    /\ UNCHANGED <<other, source_edgelist, target_edgelist, graph, qubits, tiles, err>>

\* E.total_qubits
TotalQubits ==
    /\ ret' = total_qubits(emb)
    /\ call' = [op |-> "total_qubits"]
    /\ UNCHANGED <<emb, other, source_edgelist, target_edgelist, graph, qubits, tiles, err>>

NextEmbedding ==
    \/ \E v \in Variables, chain \in Chains : SetItem(v, chain)
    \/ \E v \in Variables : DelItem(v)
    \/ TotalQubits

SpecEmbedding == InitEmbedding /\ [][NextEmbedding]_vars

\* C7: whenever total_qubits has just been read, the value returned is the sum
\* of the lengths of the chains the Embedding holds at that moment (0 when it
\* is empty), whatever mutations came before.
TotalQubitsIsSumOfChainLengths ==
    call.op = "total_qubits" =>
        ret = SumSeq([i \in DOMAIN emb |-> Len(emb[i][2])])

\* a read that follows a replacement of a chain by one of another length, with
\* two chains of different lengths held
TotalQubitsWitness ==
    /\ call.op = "total_qubits"
    /\ Len(emb) = 2
    /\ Len(emb[1][2]) # Len(emb[2][2])
    /\ ret = 3

(* ----------------------- structural identity --------------------------- *)
InitIdentity ==
    /\ emb \in Embeddings(NumVars)
    /\ other \in Embeddings(NumVars)
    /\ source_edgelist = <<>>
    /\ target_edgelist = <<>>
    /\ graph = NoGraph
    /\ qubits = <<>>
    /\ tiles = <<>>
    /\ call = [op |-> "init"]
    /\ ret = 0
    /\ err = "none"

\* A == B, A != B, hash(A), hash(B)
Compare ==
    /\ call.op = "init"
    /\ call' = [op |-> "compare"]
    /\ ret' = [eq |-> EmbeddingEq(emb, other), ne |-> EmbeddingNe(emb, other),
               hash_self |-> EmbeddingHash(emb), hash_other |-> EmbeddingHash(other)]
    /\ UNCHANGED <<emb, other, source_edgelist, target_edgelist, graph, qubits, tiles, err>>

NextIdentity == Compare

SpecIdentity == InitIdentity /\ [][NextIdentity]_vars

\* the chains of an Embedding as qubit sets, and how often each set occurs
ChainSets(e) == [i \in DOMAIN e |-> Range(e[i][2])]

Count(s, x) == Cardinality({i \in DOMAIN s : s[i] = x})

SameChainMultiset(a, b) ==
    \A S \in Range(ChainSets(a)) \cup Range(ChainSets(b)) :
        Count(ChainSets(a), S) = Count(ChainSets(b), S)

\* C1: two Embeddings with the same multiset of chains (as qubit sets) are
\* equal and hash-equal, whatever the variable names, the insertion order of
\* the variables and the order of the qubits in a chain; two Embeddings
\* whose multisets of chains differ are unequal.
EqualityFollowsChainMultiset ==
    call.op = "compare" =>
        /\ SameChainMultiset(emb, other) =>
               ret.eq /\ ~ret.ne /\ ret.hash_self = ret.hash_other
        /\ ~SameChainMultiset(emb, other) => ret.ne /\ ~ret.eq

(* ------------------ the metrics as pure functions ---------------------- *)
SourceEdges == SeqsUpTo(Variables \X Variables, MaxSourceEdges)
TargetEdges == SeqsUpTo(TargetNodes \X TargetNodes, MaxTargetEdges)

\* an Embedding of every source variable, and two edge lists
InitMetrics ==
    /\ emb \in {e \in Embeddings(NumVars) : Keys(e) = Variables}
    /\ other = <<>>
    /\ source_edgelist \in SourceEdges
    /\ target_edgelist \in TargetEdges
    /\ graph = NoGraph
    /\ qubits = <<>>
    /\ tiles = <<>>
    /\ call = [op |-> "init"]
    /\ ret = <<>>
    /\ err = "none"

Returns(op, r) ==
    /\ call.op = "init"
    /\ call' = [op |-> op]
    /\ ret' = r.val
    /\ err' = r.err
    /\ UNCHANGED <<emb, other, source_edgelist, target_edgelist, graph, qubits, tiles>>

Interactions == Returns("interactions", interactions(emb, source_edgelist, target_edgelist))

Connections == Returns("connections", connections(emb, source_edgelist, target_edgelist))

ConnectivityHistogram ==
    Returns("connectivity_histogram",
            connectivity_histogram(emb, source_edgelist, target_edgelist))

NextMetrics == Interactions \/ Connections \/ ConnectivityHistogram

SpecMetrics == InitMetrics /\ [][NextMetrics]_vars

\* what the edge lists and the chains say, stated without the loops
Chain(v) == Get(emb, v)

Adjacent(s, t) ==
    /\ s # t
    /\ \E i \in DOMAIN target_edgelist : target_edgelist[i] \in {<<s, t>>, <<t, s>>}

Realized(u, v) ==
    {p \in Range(Chain(u)) \X Range(Chain(v)) : Adjacent(p[1], p[2])}

LogicalEdges ==
    {source_edgelist[i] : i \in {j \in DOMAIN source_edgelist :
                                     source_edgelist[j][1] # source_edgelist[j][2]}}

Isolated(s) == \A t \in TargetNodes : ~Adjacent(s, t)

\* C2: interactions returns, without failing, one entry per source edge (u,v)
\* with u # v, holding exactly the pairs (s,t) with s in chain(u), t in
\* chain(v) and s,t joined by a non-self-loop target edge in either
\* orientation, each once; this also when a qubit of chain(u) is in no
\* target edge.
InteractionsAreRealizedPairs ==
    call.op = "interactions" =>
        /\ err = "none"
        /\ Keys(ret) = LogicalEdges
        /\ \A i \in DOMAIN ret :
               /\ Range(ret[i][2]) = Realized(ret[i][1][1], ret[i][1][2])
               /\ Injective(ret[i][2])

\* the source degree: the non-self-loop entries of the source edge list that
\* have u as an endpoint
Degree(u) ==
    Cardinality({i \in DOMAIN source_edgelist :
                    /\ source_edgelist[i][1] # source_edgelist[i][2]
                    /\ u \in {source_edgelist[i][1], source_edgelist[i][2]}})

\* C10: when connections returns normally, connectivity_histogram raises
\* nothing: for every qubit of the connections map the source vertex of its
\* first recorded pair is an endpoint of a non-self-loop source edge, and its
\* computed degree exists and is at least 1.
HistogramDegreeIsDefined ==
    (call.op = "connectivity_histogram"
       /\ connections(emb, source_edgelist, target_edgelist).err = "none") =>
        LET conn == connections(emb, source_edgelist, target_edgelist).val
            degree == SourceDegree(source_edgelist, <<>>)
        IN  /\ err = "none"
            /\ \A i \in DOMAIN conn :
                   LET u == conn[i][2][1][1]
                   IN  /\ Degree(u) >= 1
                       /\ u \in Keys(degree)
                       /\ Get(degree, u) >= 1

\* a histogram over two qubits of different source degree
HistogramDegreeWitness ==
    /\ call.op = "connectivity_histogram"
    /\ err = "none"
    /\ Len(ret) = 2

\* the pairs connections records for q: (u,v) when q is the chain(u) end of a
\* realized interaction of source edge (u,v), (v,u) when it is the chain(v) end
Recorded(q) ==
    {e \in LogicalEdges : \E p \in Realized(e[1], e[2]) : p[1] = q}
      \cup {<<e[2], e[1]>> : e \in {f \in LogicalEdges :
                                        \E p \in Realized(f[1], f[2]) : p[2] = q}}

Involved == {q \in TargetNodes : Recorded(q) # {}}

\* the place of a realized interaction in the order connections visits them:
\* the source edge's first listing, then the places of s and t in the chains
FirstListing(e) ==
    CHOOSE i \in DOMAIN source_edgelist :
        /\ source_edgelist[i] = e
        /\ \A j \in 1..(i - 1) : source_edgelist[j] # e

Place(c, q) == CHOOSE i \in DOMAIN c : c[i] = q

Visits(q) ==
    {<<e, p>> \in LogicalEdges \X (TargetNodes \X TargetNodes) :
        p \in Realized(e[1], e[2]) /\ q \in {p[1], p[2]}}

Before(x, y) ==
    LET ex == FirstListing(x[1])
        ey == FirstListing(y[1])
        sx == Place(Chain(x[1][1]), x[2][1])
        sy == Place(Chain(y[1][1]), y[2][1])
        tx == Place(Chain(x[1][2]), x[2][2])
        ty == Place(Chain(y[1][2]), y[2][2])
    IN  \/ ex < ey
        \/ ex = ey /\ sx < sy
        \/ ex = ey /\ sx = sy /\ tx <= ty

\* the pair recorded last for q, which connections puts first in q's list
FirstRecorded(q) ==
    LET last == CHOOSE x \in Visits(q) : \A y \in Visits(q) : Before(y, x)
    IN  IF last[2][1] = q THEN last[1] ELSE <<last[1][2], last[1][1]>>

HistogramOf(value(_)) ==
    {<<r, Cardinality({q \in Involved : value(q) = r})>> : r \in {value(q) : q \in Involved}}

InteractionsRaises ==
    \E e \in LogicalEdges : \E s \in Range(Chain(e[1])) : Isolated(s)

LogicalConnectivity(q) ==
    TrueDiv(Cardinality(Recorded(q)), Degree(FirstRecorded(q)[1]))

\* C8 (amended): connectivity_histogram raises KeyError when interactions
\* does; otherwise it counts every qubit that is either end of a realized
\* interaction, and the value of a qubit is the number of distinct logical
\* pairs recorded for it, divided by the source degree of the first vertex of
\* its first recorded pair.
HistogramCountsLogicalPairs ==
    call.op = "connectivity_histogram" =>
        IF InteractionsRaises THEN err = "KeyError"
        ELSE /\ err = "none"
             /\ Injective([i \in DOMAIN ret |-> ret[i][1]])
             /\ Range(ret) = HistogramOf(LogicalConnectivity)

\* a qubit joined to two qubits of the neighbouring chain: two physical edges
\* realize the one logical pair recorded for it
HistogramCountsWitness ==
    /\ call.op = "connectivity_histogram"
    /\ err = "none"
    /\ \E q \in Involved :
          /\ Cardinality(Recorded(q)) = 1
          /\ \E e \in Recorded(q) :
                 Cardinality({p \in Realized(e[1], e[2]) : p[1] = q}) = 2

PhysicalConnectivity(q) ==
    LET e == FirstRecorded(q)
    IN  TrueDiv(Cardinality({p \in Realized(e[1], e[2]) : p[1] = q}), Degree(e[1]))

\* C8: the value of a qubit s is the number of distinct physical edges that
\* realize the logical edge (u,v) through s, divided by the source degree of u.
HistogramCountsPhysicalEdges ==
    (call.op = "connectivity_histogram" /\ err = "none") =>
        Range(ret) = HistogramOf(PhysicalConnectivity)

(* ------------------------- Tiling construction ------------------------- *)
\* the hardware graphs: chimera under each labelling, pegasus under nice labels
Graphs(tileSizes) ==
    {g \in [family : {"chimera", "pegasus"}, rows : 1..MaxRows, columns : 1..MaxRows,
             labels : {"int", "coordinate", "nice"}, tile : tileSizes] :
        g.family = "pegasus" => g.labels = "nice"}

\* a list with at most k of its elements left out
RECURSIVE Without(_, _)
Without(all, k) ==
    IF k = 0 THEN {all}
    ELSE {all} \cup UNION {Without(RemoveAt(all, i), k - 1) : i \in DOMAIN all}

\* DWaveNetworkXTiling(Tg), for a graph that lacks at most `missing` qubits
InitTilingOf(tileSizes, missing) ==
    /\ emb = <<>>
    /\ other = <<>>
    /\ source_edgelist = <<>>
    /\ target_edgelist = <<>>
    /\ graph \in Graphs(tileSizes)
    /\ qubits \in Without([p \in DOMAIN NiceCoordinates |-> from_nice(NiceCoordinates[p])],
                           missing)
    /\ tiles = AddTiles(qubits)
    /\ call = [op |-> "init"]
    /\ ret = <<>>
    /\ err = "none"

AllPresent == Len(qubits) = Len(NiceCoordinates)

\* the tile coordinates queries are made with: two or three components,
\* reaching one step past the largest grid
Coordinates ==
    ((0..2) \X (0..MaxRows) \X (0..MaxRows)) \cup ((0..MaxRows) \X (0..MaxRows))

\* the tile coordinates of the graph, with and without the layer component
GridCoordinates ==
    {c \in Coordinates :
        /\ c[Len(c) - 1] < graph.rows
        /\ c[Len(c)] < graph.columns
        /\ Len(c) = 3 => c[1] < Layers}

\* A query leaves the Tiling as it is, so a query made after another query
\* reaches no state that the same query made first does not reach: queries
\* are taken from the states in which no query result is held.
Idle == call.op \in {"init", "delitem"}

GetQubits(c, shore, k) ==
    /\ call' = [op |-> "get_qubits", tile |-> c, shore |-> shore, k |-> k]
    /\ ret' = get_qubits(c, shore, k)
    /\ err' = "none"
    /\ UNCHANGED <<emb, other, source_edgelist, target_edgelist, graph, qubits, tiles>>

GetTileNeighbors(c) ==
    /\ call' = [op |-> "get_tile_neighbors", tile |-> c]
    /\ ret' \in Orderings(NeighborSet(c))
    /\ err' = "none"
    /\ UNCHANGED <<emb, other, source_edgelist, target_edgelist, graph, qubits, tiles>>

NextTiling ==
    \/ /\ Idle
       /\ \E c \in GridCoordinates, shore \in {None, 0, 1},
             k \in {None} \cup (0..(graph.tile - 1)) : GetQubits(c, shore, k)
    \/ /\ Idle
       /\ \E c \in Coordinates : GetTileNeighbors(c)

SpecTiling == InitTilingOf(1..MaxTile, MaxMissing) /\ [][NextTiling]_vars

(* --------------------------- tile deletion ----------------------------- *)
\* the keys the construction made, and how many of them are gone
Constructed == {get_tile(qubits[i]) : i \in DOMAIN qubits}

Deleted == Cardinality(Constructed) - Len(tiles)

\* del T[key]
DelTile(key) ==
    /\ Deleted < MaxDeletes
    /\ call' = [op |-> "delitem"]
    /\ ret' = <<>>
    /\ IF key \in Keys(tiles)
       THEN tiles' = Del(tiles, key) /\ err' = "none"
       ELSE tiles' = tiles /\ err' = "KeyError"
    /\ UNCHANGED <<emb, other, source_edgelist, target_edgelist, graph, qubits>>

NextNeighbors ==
    \/ \E key \in Coordinates : DelTile(key)
    \/ /\ Idle
       /\ \E c \in Coordinates : GetTileNeighbors(c)

SpecNeighbors == InitTilingOf({1}, 0) /\ [][NextNeighbors]_vars

\* C3: a Tiling of a chimera graph with every qubit present is keyed by the
\* (row, column) pairs of the grid; with 2 rows, 2 columns and shore capacity
\* 4 it has 4 tiles and get_tile_neighbors((0,0)) returns (0,1) and (1,0).
GridKeysAreRowColumn ==
    (graph.family = "chimera" /\ AllPresent) =>
        /\ Keys(tiles) = (0..(graph.rows - 1)) \X (0..(graph.columns - 1))
        /\ (graph.rows = 2 /\ graph.columns = 2 /\ graph.tile = 4) =>
               /\ Len(tiles) = 4
               /\ (call.op = "get_tile_neighbors" /\ call.tile = <<0, 0>>) =>
                      Range(ret) = {<<0, 1>>, <<1, 0>>}

ShoreMajor(qs) ==
    /\ Len(qs) = 2 * graph.tile
    /\ \A p \in DOMAIN qs :
          /\ get_shore(qs[p]) = (p - 1) \div graph.tile
          /\ get_k(qs[p]) = (p - 1) % graph.tile

Unfiltered ==
    /\ call.op = "get_qubits"
    /\ call.tile \in Keys(tiles)
    /\ call.shore = None
    /\ call.k = None

\* C5: for a key c of the Tiling, get_qubits(c) without filters yields
\* exactly the qubits of that tile's qubit list, each once, shore 0 first
\* and by index within a shore.
GetQubitsYieldsTileQubits ==
    Unfiltered =>
        /\ Range(ret) = Range(Get(tiles, call.tile).qubits)
        /\ Injective(ret)
        /\ ShoreMajor(ret)

\* C5 (amended): the same, for a tile none of whose qubits the graph lacks.
GetQubitsYieldsFullTileQubits ==
    (Unfiltered /\ supply(Get(tiles, call.tile)) = 2 * graph.tile) =>
        /\ Range(ret) = Range(Get(tiles, call.tile).qubits)
        /\ Injective(ret)
        /\ ShoreMajor(ret)

\* the qubits of a full tile enumerated, in a graph that lacks a qubit of
\* another tile
GetQubitsWitness ==
    /\ Unfiltered
    /\ supply(Get(tiles, call.tile)) = 2 * graph.tile
    /\ graph.tile > 1
    /\ graph.labels = "int"
    /\ ~AllPresent
    /\ Len(ret) = 2 * graph.tile

OneStepApart(a, b) ==
    /\ Len(a) = Len(b)
    /\ \E i \in DOMAIN a :
          /\ a[i] - b[i] \in {-1, 1}
          /\ \A j \in DOMAIN a : j # i => a[j] = b[j]

\* C4: after any deletions, get_tile_neighbors(c) returns, without error and
\* each once, exactly the current keys one step from c in one component; it
\* returns neither c nor a coordinate that is not a key.
NeighborsAreCurrentKeys ==
    call.op = "get_tile_neighbors" =>
        /\ err = "none"
        /\ Injective(ret)
        /\ Range(ret) = {key \in Keys(tiles) : OneStepApart(key, call.tile)}
        /\ call.tile \notin Range(ret)
        /\ Range(ret) \subseteq Keys(tiles)

\* a query next to a deleted tile that still has a neighbour to return
NeighborsWitness ==
    /\ call.op = "get_tile_neighbors"
    /\ \E gone \in Constructed \ Keys(tiles) : OneStepApart(gone, call.tile)
    /\ call.tile \in Keys(tiles)
    /\ Len(ret) >= 2

(* ------------------------ coordinate accessors ------------------------- *)
Answers(c, r) ==
    /\ call' = c
    /\ ret' = r
    /\ err' = "none"
    /\ UNCHANGED <<emb, other, source_edgelist, target_edgelist, graph, qubits, tiles>>

GetTile(x) == Answers([op |-> "get_tile", x |-> x], get_tile(x))

SetTile(x, tile) == Answers([op |-> "set_tile", x |-> x, tile |-> tile], set_tile(x, tile))

GetShore(x) == Answers([op |-> "get_shore", x |-> x], get_shore(x))

SetShore(x, u) == Answers([op |-> "set_shore", x |-> x, u |-> u], set_shore(x, u))

GetK(x) == Answers([op |-> "get_k", x |-> x], get_k(x))

SetK(x, k) == Answers([op |-> "set_k", x |-> x, k |-> k], set_k(x, k))

NextCoords ==
    \/ Idle /\ \E x \in Range(qubits) : GetTile(x)
    \/ Idle /\ \E x \in Range(qubits), tile \in GridCoordinates : SetTile(x, tile)
    \/ Idle /\ \E x \in Range(qubits) : GetShore(x)
    \/ Idle /\ \E x \in Range(qubits), u \in {0, 1} : SetShore(x, u)
    \/ Idle /\ \E x \in Range(qubits) : GetK(x)
    \/ Idle /\ \E x \in Range(qubits), k \in 0..(graph.tile - 1) : SetK(x, k)

SpecCoords == InitTilingOf(1..MaxTile, 0) /\ [][NextCoords]_vars

\* C9: a setter rewrites its own component and no other: set_tile(q, c) has
\* the shore and the index of q and the tile c (a two-component c under layer
\* 0); set_shore and set_k keep the tile and the other of the two; and each
\* setter given the qubit's own value returns the qubit.
SettersRewriteOwnComponent ==
    /\ call.op = "set_tile" =>
          /\ get_shore(ret) = get_shore(call.x)
          /\ get_k(ret) = get_k(call.x)
          /\ get_tile(ret) = Zeros(3 - Len(call.tile)) \o call.tile
          /\ call.tile = get_tile(call.x) => ret = call.x
    /\ call.op = "set_shore" =>
          /\ get_shore(ret) = call.u
          /\ get_k(ret) = get_k(call.x)
          /\ get_tile(ret) = get_tile(call.x)
          /\ call.u = get_shore(call.x) => ret = call.x
    /\ call.op = "set_k" =>
          /\ get_k(ret) = call.k
          /\ get_shore(ret) = get_shore(call.x)
          /\ get_tile(ret) = get_tile(call.x)
          /\ call.k = get_k(call.x) => ret = call.x

\* a qubit with an integer label moved to another tile named by (row, column)
SettersWitness ==
    /\ call.op = "set_tile"
    /\ graph.labels = "int"
    /\ Len(call.tile) = 2
    /\ ret # call.x
    /\ get_shore(call.x) = 1
    /\ get_k(call.x) > 0

(* ------------------------- tiles and their nodes ----------------------- *)
\* two tiles built by Tile(index, shape, qubits), one per form of index, each
\* with 0..MaxSupply qubits
QubitLists == {[i \in 1..n |-> i] : n \in 0..MaxSupply}

InitTile ==
    /\ emb = <<>>
    /\ other = <<>>
    /\ source_edgelist = <<>>
    /\ target_edgelist = <<>>
    /\ graph = NoGraph
    /\ qubits = <<>>
    /\ \E qa \in QubitLists, qb \in QubitLists :
          tiles = << <<(<<0, 0>>), Tile(<<0, 0>>, <<1, 2>>, qa)>>,
                     <<(<<0, 0, 1>>), Tile(<<0, 0, 1>>, <<3, 1, 2>>, qb)>> >>
    /\ call = [op |-> "init"]
    /\ ret = 0
    /\ err = "none"

\* tile.nodes.add(v), by the placement process
AddNode(key, v) ==
    /\ tiles' = Put(tiles, key, [Get(tiles, key) EXCEPT !.nodes = @ \cup {v}])
    /\ call' = [op |-> "add", tile |-> key]
    /\ UNCHANGED <<emb, other, source_edgelist, target_edgelist, graph, qubits, ret, err>>

\* tile.nodes.remove(v)
RemoveNode(key, v) ==
    /\ v \in Get(tiles, key).nodes
    /\ tiles' = Put(tiles, key, [Get(tiles, key) EXCEPT !.nodes = @ \ {v}])
    /\ call' = [op |-> "remove", tile |-> key]
    /\ UNCHANGED <<emb, other, source_edgelist, target_edgelist, graph, qubits, ret, err>>

\* tile.concentration
Concentration(key) ==
    /\ ret' = concentration(Get(tiles, key))
    /\ call' = [op |-> "concentration", tile |-> key]
    /\ UNCHANGED <<emb, other, source_edgelist, target_edgelist, graph, qubits, tiles, err>>

\* tile.supply
Supply(key) ==
    /\ ret' = supply(Get(tiles, key))
    /\ call' = [op |-> "supply", tile |-> key]
    /\ UNCHANGED <<emb, other, source_edgelist, target_edgelist, graph, qubits, tiles, err>>

NextTile ==
    \/ \E key \in Keys(tiles), v \in Variables : AddNode(key, v)
    \/ \E key \in Keys(tiles), v \in Variables : RemoveNode(key, v)
    \/ \E key \in Keys(tiles) : Concentration(key)
    \/ \E key \in Keys(tiles) : Supply(key)

SpecTile == InitTile /\ [][NextTile]_vars

ConcentrationRead ==
    call.op = "concentration" =>
        LET T == Get(tiles, call.tile)
        IN  /\ err = "none"
            /\ T.nodes = {} => ret = <<0, 1>>
            /\ Len(T.qubits) = 0 => ret = <<0, 1>>
            /\ Len(T.qubits) # 0 =>
                   /\ ret[1] * Len(T.qubits) = Cardinality(T.nodes) * ret[2]
                   /\ ret = TrueDiv(ret[1], ret[2])

SupplyRead ==
    call.op = "supply" => ret = Len(Get(tiles, call.tile).qubits)

OtherTilesUntouched ==
    /\ Keys(tiles') = Keys(tiles)
    /\ \A key \in Keys(tiles) :
          /\ Get(tiles', key).qubits = Get(tiles, key).qubits
          /\ (call'.op \in {"add", "remove"} /\ key # call'.tile) =>
                 Get(tiles', key) = Get(tiles, key)
          /\ call'.op \notin {"add", "remove"} => Get(tiles', key) = Get(tiles, key)

\* C6: a fresh tile has concentration 0; a concentration read is the number
\* of distinct variables in nodes over the supply, and 0 without error when
\* the supply is 0; the supply stays the number of qubits given at
\* construction; a change of one tile's nodes changes no other tile.
TileOccupancy ==
    /\ [](ConcentrationRead /\ SupplyRead)
    /\ [][OtherTilesUntouched]_vars

\* a concentration read, after additions, from a tile without qubits that
\* holds a node, while the other tile holds one node for its two qubits
TileOccupancyWitness ==
    /\ call.op = "concentration"
    /\ Len(Get(tiles, call.tile).qubits) = 0
    /\ Get(tiles, call.tile).nodes # {}
    /\ ret = <<0, 1>>
    /\ \E key \in Keys(tiles) :
          /\ key # call.tile
          /\ Len(Get(tiles, key).qubits) = 2
          /\ Cardinality(Get(tiles, key).nodes) = 1

====
